---- MODULE Spec2Model ----
(***************************************************************************)
(* A model of killergraphfuncs.py: the doubling summation doublej, the     *)
(* Riccati doubling solver doubleo and the optimal linear regulator olrp.  *)
(*                                                                         *)
(* Each routine is a loop; a call is modelled as a state machine whose     *)
(* actions are the passes of that loop and its exits (return or raise).    *)
(* doublej is modelled over integer-valued matrices, which floating point  *)
(* represents exactly; doubleo and olrp over exact rationals.              *)
(***************************************************************************)
EXTENDS Integers, Sequences, FiniteSets, TLC

VARIABLES
    pc,         \* position of the running call, or how it ended
    \* ---- doublej(a1, b1, max_it)
    a1, b1, max_it,
    alpha0, gamma0, gamma1, diff, n_its,
    \* ---- doubleo(A, C, Q, R, tol): its parameters carry the prefix o_
    o_A, o_C, o_Q, o_R, o_tol,
    a0, b0, g0, g1, k1, k0, dd,
    o_passes,   \* passes of doubleo's loop completed
    caller,     \* who called doubleo: "olrp", or "none" for a direct call
    \* ---- olrp(beta, A, B, Q, R, W, tol, max_iter)
    beta, A, B, Q, R, W, tol, max_iter,
    branch,     \* which side of the test on eig(R) was taken; "none" before it
    p0, p1, f1, r_dd,
    it,         \* the next value the iterator of range(max_iter) yields
    k, s, f, p,
    solves      \* calls of scipy.linalg.solve made so far

varsJ == <<a1, b1, max_it, alpha0, gamma0, gamma1, diff, n_its>>
paramsO == <<o_A, o_C, o_Q, o_R, o_tol>>
localsO == <<a0, b0, g0, g1, k1, k0, dd, o_passes>>
varsO == <<paramsO, localsO>>
paramsR == <<beta, A, B, Q, R, tol, max_iter>>
loopR == <<p0, p1, f1, r_dd, it>>
varsR == <<paramsR, W, branch, loopR, k, s, f, p>>
vars == <<pc, caller, solves, varsJ, varsO, varsR>>

(***************************************************************************)
(* Bounds of the model.                                                    *)
(***************************************************************************)
\* doubling steps of doublej that are followed; caps explicitly passed as
\* max_it range over 1 .. MaxSteps
MaxSteps == 3

\* passes of doubleo's loop, which has no cap of its own, that are followed
MaxPasses == 2
\* iteration limits passed to olrp range over 0 .. MaxIter
MaxIter == 2

\* a local name that is not bound yet
Unbound == <<>>
\* Python's None
None == <<>>

\* the variables of a routine that is not called, and the locals of one that
\* has not bound them yet
NoCallJ ==
    /\ a1 = Unbound /\ b1 = Unbound /\ max_it = Unbound
    /\ alpha0 = Unbound /\ gamma0 = Unbound /\ gamma1 = Unbound
    /\ diff = Unbound /\ n_its = Unbound
NoParamsO ==
    /\ o_A = Unbound /\ o_C = Unbound /\ o_Q = Unbound /\ o_R = Unbound
    /\ o_tol = Unbound
NoLocalsO ==
    /\ a0 = Unbound /\ b0 = Unbound /\ g0 = Unbound /\ g1 = Unbound
    /\ k1 = Unbound /\ k0 = Unbound /\ dd = Unbound /\ o_passes = 0
NoParamsR ==
    /\ beta = Unbound /\ A = Unbound /\ B = Unbound /\ Q = Unbound
    /\ R = Unbound /\ W = Unbound /\ tol = Unbound /\ max_iter = Unbound
NoLocalsR ==
    /\ branch = "none"
    /\ p0 = Unbound /\ p1 = Unbound /\ f1 = Unbound /\ r_dd = Unbound
    /\ it = Unbound
    /\ k = Unbound /\ s = Unbound /\ f = Unbound /\ p = Unbound

(***************************************************************************)
(* Evaluation. An operand that is used more than once is evaluated once   *)
(* and bound to a name by Let or Let2.                                     *)
(***************************************************************************)
\* Op applied to the value of x
Let(x, Op(_)) == CHOOSE r \in {Op(u) : u \in {x}} : TRUE

\* Op applied to the values of x and y
Let2(x, y, Op(_, _)) == CHOOSE r \in {Op(u, w) : u \in {x}, w \in {y}} : TRUE

\* a matrix given as a function of its indices, as a tuple of tuples
Mat(fn) == [i \in 1..Len(fn) |-> fn[i] \o <<>>] \o <<>>

(***************************************************************************)
(* Integer matrices: a matrix is a tuple of rows.                          *)
(***************************************************************************)
RECURSIVE SumSeq(_)
SumSeq(sq) == IF sq = <<>> THEN 0 ELSE Head(sq) + SumSeq(Tail(sq))

RECURSIVE MaxSeq(_)
MaxSeq(sq) ==
    IF Len(sq) = 1 THEN sq[1]
    ELSE Let(MaxSeq(Tail(sq)), LAMBDA m : IF sq[1] > m THEN sq[1] ELSE m)

Abs(x) == IF x < 0 THEN -x ELSE x

\* ndarray.dot / np.dot
Dot(x, y) ==
    Let2(x, y, LAMBDA u, w :
        Mat([i \in 1..Len(u) |->
                [j \in 1..Len(w[1]) |->
                    SumSeq([l \in 1..Len(w) |-> u[i][l] * w[l][j]])]]))

\* ndarray.T
T(x) ==
    Let(x, LAMBDA u : Mat([j \in 1..Len(u[1]) |-> [i \in 1..Len(u) |-> u[i][j]]]))

\* ndarray + ndarray, ndarray - ndarray
MatAdd(x, y) ==
    Let2(x, y, LAMBDA u, w :
        Mat([i \in 1..Len(u) |-> [j \in 1..Len(u[1]) |-> u[i][j] + w[i][j]]]))
MatSub(x, y) ==
    Let2(x, y, LAMBDA u, w :
        Mat([i \in 1..Len(u) |-> [j \in 1..Len(u[1]) |-> u[i][j] - w[i][j]]]))

\* np.max(np.abs(x))
MaxAbs(x) ==
    Let(x, LAMBDA u :
        MaxSeq([i \in 1..Len(u) |-> MaxSeq([j \in 1..Len(u[1]) |-> Abs(u[i][j])])]))

Zeros(n, m) == Mat([i \in 1..n |-> [j \in 1..m |-> 0]])
Eye(n) == Mat([i \in 1..n |-> [j \in 1..n |-> IF i = j THEN 1 ELSE 0]])

(***************************************************************************)
(* Comparison of the rational n/d (d > 0) with the tolerance 10^-e:        *)
(* n/d > 10^-e  iff  n * 10^e > d  iff  n > floor(d / 10^e), computed      *)
(* without forming 10^e.                                                   *)
(***************************************************************************)
RECURSIVE GtPow10(_, _, _)
GtPow10(n, d, e) == IF e = 0 THEN n > d ELSE GtPow10(n, d \div 10, e - 1)

(***************************************************************************)
(* doublej                                                                 *)
(***************************************************************************)
\* the default of the parameter max_it
DefaultMaxIt == 50
\* the initial value of diff
InitDiff == 5
\* the loop runs while diff > 1e-15
DoublejTolExp == 15

\* the input matrices a1 and b1: all 2 x 2 matrices over Entries
Entries == {-1, 0, 1}
Rows == Entries \X Entries
Matrices == Rows \X Rows

\* a step that forgets to square
StepAlphaNoSquare(alpha) == alpha

\* alpha1 = alpha0.dot(alpha0)
StepAlpha(alpha) == Dot(alpha, alpha)

\* a step that forgets the transpose
StepGammaNoTranspose(alpha, gamma) == MatAdd(gamma, Dot(Dot(alpha, gamma), alpha))

\* gamma1 = gamma0 + np.dot(alpha0.dot(gamma0), alpha0.T)
StepGamma(alpha, gamma) == MatAdd(gamma, Dot(Dot(alpha, gamma), T(alpha)))

\* while diff > 1e-15
DoublejContinues(d) == GtPow10(d, 1, DoublejTolExp)

\* if n_its > max_it: raise ValueError
ExceededCap(n, cap) == n > cap

InitJ ==
    /\ a1 \in Matrices
    /\ b1 \in Matrices
    /\ max_it \in (1..MaxSteps) \cup {DefaultMaxIt}
    /\ alpha0 = a1
    /\ gamma0 = b1
    /\ gamma1 = Unbound
    /\ diff = InitDiff
    /\ n_its = 1
    /\ pc = "j_loop"
    /\ caller = "none"
    /\ solves = 0
    /\ NoParamsO
    /\ NoLocalsO
    /\ NoParamsR
    /\ NoLocalsR

\* one pass of the while loop, ending in the cap check
JStep ==
    /\ pc = "j_loop"
    /\ DoublejContinues(diff)
    /\ n_its <= MaxSteps
    /\ LET alpha1 == StepAlpha(alpha0)
           gamma1n == StepGamma(alpha0, gamma0)
       IN /\ gamma1' = gamma1n
          /\ diff' = MaxAbs(MatSub(gamma1n, gamma0))
          /\ alpha0' = alpha1
          /\ gamma0' = gamma1n
    /\ n_its' = n_its + 1
    /\ pc' = IF ExceededCap(n_its', max_it) THEN "j_raised" ELSE "j_loop"
    /\ UNCHANGED <<a1, b1, max_it, caller, solves, varsO, varsR>>

\* the loop condition fails: return gamma1
JReturn ==
    /\ pc = "j_loop"
    /\ ~DoublejContinues(diff)
    /\ pc' = "j_returned"
    /\ UNCHANGED <<varsJ, caller, solves, varsO, varsR>>

NextJ == JStep \/ JReturn

SpecJ == InitJ /\ [][NextJ]_vars

(***************************************************************************)
(* Exact rationals <<n, d>> in lowest terms with d > 0, and matrices of    *)
(* them, standing for the floating-point arrays of doubleo and olrp.       *)
(***************************************************************************)
RECURSIVE Gcd(_, _)
Gcd(x, y) == IF y = 0 THEN x ELSE Gcd(y, x % y)

\* n / d in lowest terms
Rat(n, d) ==
    Let2(n, d, LAMBDA u, w :
        Let(Gcd(Abs(u), Abs(w)), LAMBDA g :
            IF w < 0 THEN <<(-u) \div g, (-w) \div g>> ELSE <<u \div g, w \div g>>))

QZero == <<0, 1>>
QOne == <<1, 1>>
QNeg(x) == Let(x, LAMBDA u : <<-u[1], u[2]>>)
QAbs(x) == Let(x, LAMBDA u : <<Abs(u[1]), u[2]>>)

\* sums over the least common denominator and products after cancelling
\* across, which keeps the intermediate integers small
QAdd(x, y) ==
    Let2(x, y, LAMBDA u, w :
        Let(Gcd(u[2], w[2]), LAMBDA g :
            Rat(u[1] * (w[2] \div g) + w[1] * (u[2] \div g), (u[2] \div g) * w[2])))
QSub(x, y) == QAdd(x, QNeg(y))
QMul(x, y) ==
    Let2(x, y, LAMBDA u, w :
        Let2(Rat(u[1], w[2]), Rat(w[1], u[2]), LAMBDA c, e :
            <<c[1] * e[1], c[2] * e[2]>>))
QDiv(x, y) == Let2(x, y, LAMBDA u, w : QMul(u, Rat(w[2], w[1])))
QLess(x, y) == \E u \in {x}, w \in {y} : u[1] * w[2] < w[1] * u[2]

\* x > 10^-e
QGtPow10(x, e) == \E u \in {x} : GtPow10(u[1], u[2], e)

RECURSIVE QSumSeq(_)
QSumSeq(sq) == IF sq = <<>> THEN QZero ELSE QAdd(Head(sq), QSumSeq(Tail(sq)))

RECURSIVE QMaxSeq(_)
QMaxSeq(sq) ==
    IF Len(sq) = 1 THEN sq[1]
    ELSE Let(QMaxSeq(Tail(sq)), LAMBDA m : IF QLess(m, sq[1]) THEN sq[1] ELSE m)

\* ndarray.dot / np.dot
QDot(x, y) ==
    Let2(x, y, LAMBDA u, w :
        Mat([i \in 1..Len(u) |->
                [j \in 1..Len(w[1]) |->
                    QSumSeq([l \in 1..Len(w) |-> QMul(u[i][l], w[l][j])])]]))

\* ndarray + ndarray, ndarray - ndarray
QMatAdd(x, y) ==
    Let2(x, y, LAMBDA u, w :
        Mat([i \in 1..Len(u) |-> [j \in 1..Len(u[1]) |-> QAdd(u[i][j], w[i][j])]]))
QMatSub(x, y) ==
    Let2(x, y, LAMBDA u, w :
        Mat([i \in 1..Len(u) |-> [j \in 1..Len(u[1]) |-> QSub(u[i][j], w[i][j])]]))

\* scalar * ndarray
QScale(c, x) ==
    Let2(c, x, LAMBDA u, w :
        Mat([i \in 1..Len(w) |-> [j \in 1..Len(w[1]) |-> QMul(u, w[i][j])]]))

\* np.max(x): the largest entry, signed
QMax(x) == Let(x, LAMBDA u : QMaxSeq([i \in 1..Len(u) |-> QMaxSeq(u[i])] \o <<>>))

\* np.max(np.abs(x))
QMaxAbs(x) ==
    Let(x, LAMBDA u :
        QMaxSeq([i \in 1..Len(u) |->
                    QMaxSeq([j \in 1..Len(u[1]) |-> QAbs(u[i][j])] \o <<>>)] \o <<>>))

\* np.zeros((n, m)), np.eye(n)
QZeros(n, m) == Mat([i \in 1..n |-> [j \in 1..m |-> QZero]])
QEye(n) == Mat([i \in 1..n |-> [j \in 1..n |-> (IF i = j THEN QOne ELSE QZero)]])

\* max(x.shape)
MaxShape(x) == Let(x, LAMBDA u : IF Len(u) > Len(u[1]) THEN Len(u) ELSE Len(u[1]))

\* determinant and adjugate of a 1 x 1 or 2 x 2 matrix
Det(x) ==
    Let(x, LAMBDA u :
        IF Len(u) = 1 THEN u[1][1]
        ELSE QSub(QMul(u[1][1], u[2][2]), QMul(u[1][2], u[2][1])))

Adj(x) ==
    Let(x, LAMBDA u :
        IF Len(u) = 1 THEN <<<<QOne>>>>
        ELSE <<<<u[2][2], QNeg(u[1][2])>>, <<QNeg(u[2][1]), u[1][1]>>>>)

\* scipy.linalg.solve(x, y) raises LinAlgError when x is singular
Singular(x) == Det(x) = QZero

\* scipy.linalg.solve(x, y) for a non-singular x: the z with x z = y
QSolve(x, y) ==
    Let2(x, y, LAMBDA u, w : QScale(QDiv(QOne, Det(u)), QDot(Adj(u), w)))

\* the moduli of the eigenvalues of a triangular matrix: those of its diagonal
EigMods(x) == Let(x, LAMBDA u : [i \in 1..Len(u) |-> QAbs(u[i][i])] \o <<>>)

\* math.sqrt of a rational whose numerator and denominator are squares
ISqrt(n) == CHOOSE r \in 0..n : r * r = n
QSqrt(x) == Let(x, LAMBDA u : <<ISqrt(u[1]), ISqrt(u[2])>>)

(***************************************************************************)
(* doubleo                                                                 *)
(***************************************************************************)
\* the default of the parameter tol, 1e-15, as the exponent e of 10^-e
DoubleoDefaultTolExp == 15

\* while dd > tol
DoubleoContinues(d, e) == QGtPow10(d, e)

\* The statements before the loop. The result says whether a solve raised,
\* how many solves were called, and the locals.
DoubleoStart(A_, C_, Q_, R_) ==
    IF Singular(R_) THEN [raised |-> TRUE, solves |-> 1]
    ELSE [raised |-> FALSE, solves |-> 1,
          a0 |-> T(A_),
          b0 |-> QDot(T(C_), QSolve(R_, C_)),
          g0 |-> Q_,
          dd |-> QOne]

\* k = A g (C g' C' + R')^-1 C', computed as np.dot(A.dot(g), solve(m, C).T)
Gain(A_, C_, g_, m_) == QDot(QDot(A_, g_), T(QSolve(m_, C_)))

\* C g' C' + R', the coefficient matrix of the solve inside the gain
GainCoef(C_, R_, g_) == QMatAdd(QDot(QDot(C_, T(g_)), T(C_)), T(R_))

\* the convergence measure at the end of a pass, np.max(k1 - k0)
DoubleoDiff(k1_, k0_) == QMax(QMatSub(k1_, k0_))

\* One pass of the loop from the locals (a0_, b0_, g0_).
DoubleoPass(a0_, b0_, g0_, A_, C_, R_) ==
    Let(QMatAdd(QEye(MaxShape(A_)), QDot(b0_, g0_)), LAMBDA m :
    IF Singular(m) THEN [raised |-> TRUE, solves |-> 1]
    ELSE
    Let(QDot(a0_, QSolve(m, a0_)), LAMBDA a1_ :
    Let(QMatAdd(b0_, QDot(a0_, QSolve(m, QDot(b0_, T(a0_))))), LAMBDA b1_ :
    Let(QMatAdd(g0_, QDot(QDot(T(a0_), g0_), QSolve(m, a0_))), LAMBDA g1_ :
    Let(GainCoef(C_, R_, g1_), LAMBDA m1 :
    IF Singular(m1) THEN [raised |-> TRUE, solves |-> 4]
    ELSE
    Let(Gain(A_, C_, g1_, m1), LAMBDA k1_ :
    Let(GainCoef(C_, R_, g0_), LAMBDA m0 :
    IF Singular(m0) THEN [raised |-> TRUE, solves |-> 5]
    ELSE
    Let(Gain(A_, C_, g0_, m0), LAMBDA k0_ :
        [raised |-> FALSE, solves |-> 5,
         a0 |-> a1_, b0 |-> b1_, g0 |-> g1_, g1 |-> g1_,
         k1 |-> k1_, k0 |-> k0_,
         dd |-> DoubleoDiff(k1_, k0_)]))))))))

\* the statements before the loop
OEnter ==
    /\ pc = "o_enter"
    /\ \E r \in {DoubleoStart(o_A, o_C, o_Q, o_R)} :
          /\ solves' = solves + r.solves
          /\ IF r.raised
             THEN /\ pc' = "lin_alg_error"
                  /\ UNCHANGED <<a0, b0, g0, dd>>
             ELSE /\ pc' = "o_loop"
                  /\ a0' = r.a0
                  /\ b0' = r.b0
                  /\ g0' = r.g0
                  /\ dd' = r.dd
    /\ UNCHANGED <<g1, k1, k0, o_passes, paramsO, caller, varsJ, varsR>>

\* one pass of the while loop
OStep ==
    /\ pc = "o_loop"
    /\ DoubleoContinues(dd, o_tol)
    /\ o_passes < MaxPasses
    /\ \E r \in {DoubleoPass(a0, b0, g0, o_A, o_C, o_R)} :
          /\ solves' = solves + r.solves
          /\ IF r.raised
             THEN /\ pc' = "lin_alg_error"
                  /\ UNCHANGED localsO
             ELSE /\ pc' = "o_loop"
                  /\ a0' = r.a0
                  /\ b0' = r.b0
                  /\ g0' = r.g0
                  /\ g1' = r.g1
                  /\ k1' = r.k1
                  /\ k0' = r.k0
                  /\ dd' = r.dd
                  /\ o_passes' = o_passes + 1
    /\ UNCHANGED <<paramsO, caller, varsJ, varsR>>

\* the loop condition fails: return k1, g1; olrp receives them as k, s
OReturn ==
    /\ pc = "o_loop"
    /\ ~DoubleoContinues(dd, o_tol)
    /\ IF caller = "olrp"
       THEN /\ pc' = "r_resume"
            /\ k' = k1
            /\ s' = g1
       ELSE /\ pc' = "o_returned"
            /\ UNCHANGED <<k, s>>
    /\ UNCHANGED <<varsO, caller, solves, varsJ, paramsR, W, branch, loopR, f, p>>

\* rational matrices from integer entries
Q1(x) == <<<<Rat(x, 1)>>>>
QCol(x, y) == <<<<Rat(x, 1)>>, <<Rat(y, 1)>>>>
QRow(x, y) == <<<<Rat(x, 1), Rat(y, 1)>>>>
QDiag(x, y) == <<<<Rat(x, 1), QZero>>, <<QZero, Rat(y, 1)>>>>

\* the tolerances 10^-e passed to doubleo, by their exponent e
DoubleoTols == {2, DoubleoDefaultTolExp}

\* The inputs of a direct call: one state, one or two observations.  The
\* rationals are the exact values that the code's doubles round; a comparison
\* with a tolerance comes out the same in both as long as the exact
\* difference is not the tolerance itself.  The coarse tolerance 1e-1 is
\* therefore given only to the calls with two observations, whose
\* differences stay away from it: with one observation the first pass of
\* A = C = Q = R = 1 has the difference 3/5 - 1/2, exactly 1/10, which the
\* doubles round to a value above 0.1.
DoubleoInputs ==
    LET As == {Q1(-1), Q1(0), Q1(1)}
        Qs == {Q1(0), Q1(1)}
        One == {Q1(0), Q1(1)} \X {Q1(0), Q1(1)}
        Two == {QCol(1, 1), QCol(1, -1)} \X {QDiag(1, 1), QDiag(1, 0)}
    IN (As \X (One \cup Two) \X Qs \X DoubleoTols)
       \cup (As \X Two \X Qs \X {1})

InitO ==
    /\ pc = "o_enter"
    /\ caller = "none"
    /\ solves = 0
    /\ \E in \in DoubleoInputs :
          /\ o_A = in[1]
          /\ o_C = in[2][1]
          /\ o_R = in[2][2]
          /\ o_Q = in[3]
          /\ o_tol = in[4]
    /\ NoLocalsO
    /\ NoCallJ
    /\ NoParamsR
    /\ NoLocalsR

NextO == OEnter \/ OStep \/ OReturn

SpecO == InitO /\ [][NextO]_vars

(***************************************************************************)
(* olrp, for one state and one or two controls.  The primary branch        *)
(* rebinds its locals A, B and Q to the transformed matrices only to pass  *)
(* them on to doubleo; the model hands them to doubleo's parameters and    *)
(* keeps A, B and Q as the call's arguments.                               *)
(***************************************************************************)
\* the default of the parameter tol, 1e-6, as the exponent e of 10^-e
OlrpDefaultTolExp == 6
\* the branch test compares with 1e-5
EigTolExp == 5

\* if np.max(np.abs(eig(R)[0])) > 1e-5
Primary(R_) == QGtPow10(QMaxSeq(EigMods(R_)), EigTolExp)

\* a call that hands olrp's own tolerance on to doubleo
DoubleoTolPassed(tol_) == tol_

\* k, s = doubleo(A.T, B.T, Q, R): the tolerance doubleo runs with
DoubleoTolOfCall(tol_) == DoubleoDefaultTolExp

\* a loop that tests the limit only after a pass
RangeExhaustedLate(i, n) == i > n

\* for it in range(max_iter): no value is left to draw
RangeExhausted(i, n) == i >= n

\* if dd > tol: break
Breaks(d, e) == QGtPow10(d, e)

\* a pass that forgets the update
KeepP0(p0_, p1_) == p0_

\* p0 = p1
UpdateP0(p0_, p1_) == p1_

\* p0 = -0.1 * np.eye(m)
InitP0(m) == QScale(Rat(-1, 10), QEye(m))

\* R + beta * B.T.dot(p).dot(B)
FeedbackCoef(beta_, B_, R_, p_) ==
    QMatAdd(R_, QScale(beta_, QDot(QDot(T(B_), p_), B_)))

\* solve(R + beta * B.T.dot(p).dot(B), beta * B.T.dot(p).dot(A) + W.T)
Feedback(beta_, A_, B_, R_, W_, p_) ==
    QSolve(FeedbackCoef(beta_, B_, R_, p_),
           QMatAdd(QScale(beta_, QDot(QDot(T(B_), p_), A_)), T(W_)))

\* One pass of the for loop from p0_.
OlrpPass(p0_, beta_, A_, B_, Q_, R_, W_) ==
    IF Singular(FeedbackCoef(beta_, B_, R_, p0_))
    THEN [raised |-> TRUE, solves |-> 1]
    ELSE
    Let(Feedback(beta_, A_, B_, R_, W_, p0_), LAMBDA f0_ :
    Let(QMatSub(QMatAdd(QScale(beta_, QDot(QDot(T(A_), p0_), A_)), Q_),
                QDot(QMatAdd(QScale(beta_, QDot(QDot(T(A_), p0_), B_)), W_), f0_)),
        LAMBDA p1_ :
    IF Singular(FeedbackCoef(beta_, B_, R_, p1_))
    THEN [raised |-> TRUE, solves |-> 2]
    ELSE
    Let(Feedback(beta_, A_, B_, R_, W_, p1_), LAMBDA f1_ :
        [raised |-> FALSE, solves |-> 2,
         f0 |-> f0_, f1 |-> f1_, p1 |-> p1_,
         dd |-> QMax(QMatSub(f1_, f0_))])))

\* The transformation of the primary branch: the arguments of the call of
\* doubleo (R must be non-singular).
PrimaryCall(beta_, A_, B_, Q_, R_, W_) ==
    LET A2 == QScale(QSqrt(beta_), QMatSub(A_, QDot(B_, QSolve(R_, T(W_)))))
        B2 == QScale(QSqrt(beta_), B_)
        Q2 == QMatSub(Q_, QDot(W_, QSolve(R_, T(W_))))
    IN [A |-> T(A2), C |-> T(B2), Q |-> Q2, R |-> R_]

\* The entry of olrp: the default of W and the branch on the eigenvalues of
\* R; in the primary branch the transformation and the call of doubleo, in
\* the other the initialisation of the loop.
REnter ==
    /\ pc = "r_enter"
    /\ LET m == MaxShape(A)
           cb == Len(B[1])
           W_ == IF W = None THEN QZeros(m, cb) ELSE W
       IN /\ W' = W_
          /\ IF Primary(R)
             THEN /\ branch' = "primary"
                  /\ UNCHANGED loopR
                  /\ IF Singular(R)
                     THEN /\ pc' = "lin_alg_error"
                          /\ solves' = solves + 1
                          /\ UNCHANGED paramsO
                     ELSE \E c \in {PrimaryCall(beta, A, B, Q, R, W_)} :
                             /\ pc' = "o_enter"
                             /\ solves' = solves + 2
                             /\ o_A' = c.A
                             /\ o_C' = c.C
                             /\ o_Q' = c.Q
                             /\ o_R' = c.R
                             /\ o_tol' = DoubleoTolOfCall(tol)
             ELSE /\ branch' = "fallback"
                  /\ p0' = InitP0(m)
                  /\ r_dd' = QOne
                  /\ it' = 0
                  /\ pc' = "r_loop"
                  /\ UNCHANGED <<p1, f1, solves, paramsO>>
    /\ UNCHANGED <<paramsR, k, s, f, p, localsO, caller, varsJ>>

\* One pass of the for loop; a pass that breaks goes on to return f1, p1.
RPass ==
    /\ pc = "r_loop"
    /\ ~RangeExhausted(it, max_iter)
    /\ \E r \in {OlrpPass(p0, beta, A, B, Q, R, W)} :
          /\ solves' = solves + r.solves
          /\ IF r.raised
             THEN /\ pc' = "lin_alg_error"
                  /\ UNCHANGED <<loopR, f, p>>
             ELSE /\ f1' = r.f1
                  /\ p1' = r.p1
                  /\ r_dd' = r.dd
                  /\ p0' = UpdateP0(p0, r.p1)
                  /\ it' = it + 1
                  /\ IF Breaks(r.dd, tol)
                     THEN /\ f' = r.f1
                          /\ p' = r.p1
                          /\ pc' = "r_returned"
                     ELSE /\ pc' = "r_loop"
                          /\ UNCHANGED <<f, p>>
    /\ UNCHANGED <<paramsR, W, branch, k, s, varsO, caller, varsJ>>

\* The else clause of the for loop: the range is used up, raise ValueError.
RExhausted ==
    /\ pc = "r_loop"
    /\ RangeExhausted(it, max_iter)
    /\ pc' = "r_raised"
    /\ UNCHANGED <<varsR, varsO, caller, solves, varsJ>>

\* After doubleo has returned: f = k.T + solve(R, W.T), p = s, return.
RFinish ==
    /\ pc = "r_resume"
    /\ f' = QMatAdd(T(k), QSolve(R, T(W)))
    /\ p' = s
    /\ solves' = solves + 1
    /\ pc' = "r_returned"
    /\ UNCHANGED <<paramsR, W, branch, loopR, k, s, varsO, caller, varsJ>>

\* the tolerances 10^-e passed to olrp, by their exponent e
OlrpTols == {1, OlrpDefaultTolExp}

\* the inputs of a call: B, R and W for one control and for two
OlrpInputs ==
    LET betaAs == ({QOne} \X {Q1(-1), Q1(0), Q1(1)}) \cup ({Rat(1, 4)} \X {Q1(0)})
        Qs == {Q1(0), Q1(1)}
        BRWs == ({Q1(0), Q1(1)} \X {Q1(0), Q1(1)} \X {None, Q1(1)})
                \cup ({Q1(0)} \X {<<<<Rat(1, 100000)>>>>} \X {None, Q1(1)})
                \cup ({QRow(1, 0), QRow(1, 1)}
                         \X {QDiag(0, 0), QDiag(1, 0), QDiag(1, 1)}
                         \X {None, QRow(1, 0)})
    IN betaAs \X BRWs \X Qs \X OlrpTols \X (0..MaxIter)

InitR ==
    /\ pc = "r_enter"
    /\ caller = "olrp"
    /\ solves = 0
    /\ \E in \in OlrpInputs :
          /\ beta = in[1][1]
          /\ A = in[1][2]
          /\ B = in[2][1]
          /\ R = in[2][2]
          /\ W = in[2][3]
          /\ Q = in[3]
          /\ tol = in[4]
          /\ max_iter = in[5]
    /\ NoLocalsR
    /\ NoParamsO
    /\ NoLocalsO
    /\ NoCallJ

NextR == REnter \/ RPass \/ RExhausted \/ OEnter \/ OStep \/ OReturn \/ RFinish

SpecR == InitR /\ [][NextR]_vars

\* the scheduling of a single-threaded call: a step that can be taken is taken
FairSpecR == SpecR /\ WF_vars(NextR)

(***************************************************************************)
(* Reference quantities for doublej, computed without doubling.            *)
(***************************************************************************)
\* x^m by repeated multiplication
RECURSIVE MatPow(_, _)
MatPow(x, m) == IF m = 0 THEN Eye(Len(x)) ELSE Dot(x, MatPow(x, m - 1))

\* sum over j = 0 .. m-1 of x^j y (x^j)', by naive iteration of V -> y + x V x'
RECURSIVE PartialSum(_, _, _)
PartialSum(x, y, m) ==
    IF m = 0 THEN Zeros(Len(x), Len(x))
    ELSE MatAdd(y, Dot(Dot(x, PartialSum(x, y, m - 1)), T(x)))

RECURSIVE Pow2(_)
Pow2(e) == IF e = 0 THEN 1 ELSE 2 * Pow2(e - 1)

\* An integer matrix has spectral radius < 1 iff it is nilpotent: the nonzero
\* eigenvalues of an integer matrix have an integer product of modulus >= 1.
Stable(x) == MatPow(x, Len(x)) = Zeros(Len(x), Len(x))

Symmetric(x) == T(x) = x

\* doubling steps completed so far
StepsDone == n_its - 1

JPositions == {"j_loop", "j_returned", "j_raised"}

\* C2: doublej raises only if the tolerance was not reached within the cap:
\* when the error is raised, the step that was just completed (the max_it-th)
\* still had a difference above 1e-15.
C2_RaisesOnlyIfNotConverged ==
    pc = "j_raised" => DoublejContinues(diff)

\* C3: for a1 with spectral radius >= 1 and any b1, doublej never returns a
\* value.
C3_UnstableNeverReturns ==
    ~Stable(a1) => pc # "j_returned"

\* C7: for symmetric b1 and stable a1, doublej with the default cap does not
\* raise, leaves its loop within n + 1 counted iterations (a1 being n x n), and the value it
\* returns satisfies V = b1 + a1 V a1' up to 1e-15 entrywise.
C7_StableFixedPoint ==
    (pc \in JPositions /\ Symmetric(b1) /\ Stable(a1) /\ max_it = DefaultMaxIt) =>
        /\ pc # "j_raised"
        /\ n_its <= Len(a1) + 1
        /\ pc = "j_returned" =>
              ~GtPow10(MaxAbs(MatSub(gamma1,
                          MatAdd(b1, Dot(Dot(a1, gamma1), T(a1))))), 1, DoublejTolExp)

C7_Witness ==
    /\ pc = "j_returned"
    /\ Symmetric(b1) /\ Stable(a1) /\ max_it = DefaultMaxIt
    /\ a1 # Zeros(Len(a1), Len(a1))
    /\ gamma1 # b1

\* C8: after k completed doubling steps the loop holds alpha = a1^(2^k) and
\* gamma = the sum of the first 2^k terms a1^j b1 (a1^j)'; a returned value is
\* that partial sum.
C8_LoopInvariant ==
    pc \in JPositions =>
        /\ alpha0 = MatPow(a1, Pow2(StepsDone))
        /\ gamma0 = PartialSum(a1, b1, Pow2(StepsDone))
        /\ pc = "j_returned" => gamma1 = PartialSum(a1, b1, Pow2(StepsDone))

C8_Witness ==
    /\ pc = "j_returned"
    /\ StepsDone >= 2
    /\ gamma1 # b1
    /\ ~Stable(a1)

(***************************************************************************)
(* Reference outcome of the primary branch of olrp, as a function of the   *)
(* arguments other than tol and max_iter.                                  *)
(***************************************************************************)
\* doubleo's loop run from the given locals with the default tolerance, for
\* at most fuel passes
RECURSIVE DoubleoRun(_, _, _, _, _, _, _, _, _, _)
DoubleoRun(a0_, b0_, g0_, g1_, k1_, dd_, A_, C_, R_, fuel) ==
    IF ~DoubleoContinues(dd_, DoubleoDefaultTolExp)
    THEN [status |-> "r_returned", k |-> k1_, s |-> g1_]
    ELSE IF fuel = 0 THEN [status |-> "o_loop"]
    ELSE LET r == DoubleoPass(a0_, b0_, g0_, A_, C_, R_)
         IN IF r.raised THEN [status |-> "lin_alg_error"]
            ELSE DoubleoRun(r.a0, r.b0, r.g0, r.g1, r.k1, r.dd, A_, C_, R_, fuel - 1)

\* W_ is the cross term after its default has been filled in
PrimaryOutcome(beta_, A_, B_, Q_, R_, W_) ==
    IF Singular(R_) THEN [status |-> "lin_alg_error"]
    ELSE LET c == PrimaryCall(beta_, A_, B_, Q_, R_, W_)
             st == DoubleoStart(c.A, c.C, c.Q, c.R)
             o == DoubleoRun(st.a0, st.b0, st.g0, Unbound, Unbound, st.dd,
                             c.A, c.C, c.R, MaxPasses)
         IN IF o.status = "r_returned"
            THEN [status |-> "r_returned",
                  f |-> QMatAdd(T(o.k), QSolve(R_, T(W_))),
                  p |-> o.s]
            ELSE o

(***************************************************************************)
(* The exact comparisons decide as the comparisons of the doubles do:      *)
(* every difference that is compared with a tolerance is away from it.     *)
(***************************************************************************)
\* x = 10^-e
RECURSIVE IsPow10(_, _, _)
IsPow10(n, d, e) ==
    IF e = 0 THEN n = 1 /\ d = 1
    ELSE d % 10 = 0 /\ IsPow10(n, d \div 10, e - 1)

OffTolerance ==
    /\ (pc = "o_loop" /\ o_passes > 0) => ~IsPow10(dd[1], dd[2], o_tol)
    /\ (branch = "fallback" /\ it > 0) => ~IsPow10(r_dd[1], r_dd[2], tol)

(***************************************************************************)
(* The claims about doubleo and olrp.                                      *)
(***************************************************************************)
\* C1: in the fallback branch olrp returns at the first pass whose difference
\* max(f1 - f0) is <= tol and raises the iteration-limit error only if no
\* pass reached it: a returned call has a last difference <= tol, and a call
\* that raised after at least one pass has a last difference > tol.
C1_FallbackStopsWhenConverged ==
    branch = "fallback" =>
        /\ pc = "r_returned" => ~QGtPow10(r_dd, tol)
        /\ (pc = "r_raised" /\ it > 0) => QGtPow10(r_dd, tol)

\* C4: the primary branch of olrp is entered only when R is invertible; a
\* singular R selects the fallback branch.
C4_PrimaryOnlyIfInvertible ==
    branch = "primary" => ~Singular(R)

\* C5: when doubleo returns, every entry of k1 - k0 of the final pass has
\* magnitude at most tol.
C5_ReturnedGainConverged ==
    pc = "o_returned" => ~QGtPow10(QMaxAbs(QMatSub(k1, k0)), o_tol)

\* C6: with max_iter = 0 in the fallback branch olrp raises the
\* iteration-limit error at once: the only step the loop can take is the
\* raise, no pass has run and no linear solve has been called.
C6_ZeroLimitRaisesAtOnce ==
    (branch = "fallback" /\ max_iter = 0) =>
        /\ pc \in {"r_loop", "r_raised"}
        /\ solves = 0
        /\ it = 0 /\ p1 = Unbound /\ f1 = Unbound
        /\ pc = "r_loop" => (ENABLED RExhausted /\ ~ENABLED RPass)

C6_Witness ==
    /\ pc = "r_raised"
    /\ max_iter = 0
    /\ solves = 0

\* C9 as stated: the fallback branch ends only by returning or by raising the
\* iteration-limit error after exactly max_iter passes.
C9_EndsByReturnOrLimitOnly ==
    (branch = "fallback" /\ pc # "r_loop") =>
        \/ pc = "r_returned"
        \/ pc = "r_raised" /\ it = max_iter

\* what holds of the fallback branch in every state
FallbackInv ==
    branch = "fallback" =>
        /\ pc \in {"r_loop", "r_returned", "r_raised", "lin_alg_error"}
        /\ it \in 0..max_iter
        /\ pc = "r_raised" => it = max_iter
        /\ pc = "r_returned" => (it >= 1 /\ f = f1 /\ p = p1 /\ p0 = p1)
        /\ (pc = "r_loop" /\ it >= 1) => (p0 = p1 /\ ~Breaks(r_dd, tol))

\* C9 (amended): the fallback branch always terminates: it runs at most
\* max_iter passes, the test of a pass comes after its update p0 := p1, and
\* it ends by returning the (f1, p1) of the pass that stopped the loop, by
\* raising the iteration-limit error after exactly max_iter passes, or with
\* the error of a linear solve inside a pass.
C9_FallbackTerminates ==
    /\ []FallbackInv
    /\ (branch = "fallback") ~> (pc \in {"r_returned", "r_raised", "lin_alg_error"})

C9_Witness ==
    /\ branch = "fallback"
    /\ pc = "r_raised"
    /\ max_iter >= 2
    /\ it = max_iter
    /\ p0 = p1

\* what holds of the primary branch in every state
PrimaryInv ==
    branch = "primary" =>
        /\ pc # "r_raised"
        /\ pc \in {"o_enter", "o_loop", "r_resume"} => o_tol = DoubleoDefaultTolExp
        /\ pc \in {"r_returned", "lin_alg_error"} =>
              LET o == PrimaryOutcome(beta, A, B, Q, R, W)
              IN /\ o.status = pc
                 /\ pc = "r_returned" => (f = o.f /\ p = o.p)

\* C10: in the primary branch tol and max_iter have no effect: doubleo runs
\* with its own default tolerance, the outcome is the one determined by the
\* other arguments, the iteration-limit error is never raised, and while
\* doubleo's loop condition holds the call can only go on looping (or fail in
\* a solve).
C10_PrimaryIgnoresTolAndLimit ==
    /\ []PrimaryInv
    /\ [][(branch = "primary" /\ pc = "o_loop" /\ DoubleoContinues(dd, o_tol))
             => pc' \in {"o_loop", "lin_alg_error"}]_vars

C10_Witness ==
    /\ branch = "primary"
    /\ pc = "r_returned"
    /\ tol # OlrpDefaultTolExp
    /\ max_iter = 0
    /\ o_passes >= 2

====
